---- MODULE Spec2Model ----
(***************************************************************************)
(* Model of PLUGIN.py: the per-frame signal conditioning pipeline of       *)
(* main() (response curve, range mapping, exponential smoothing,           *)
(* quantization, dead zone and rate limit) that drives /size and /decay.   *)
(*                                                                         *)
(* Numbers.  The program computes in Python floats: every arithmetic       *)
(* operation returns the exact result rounded to the nearest               *)
(* representable value, ties to even.  The model keeps that shape with a   *)
(* decimal floating point of FloatDigits significant digits.  A quantity   *)
(* is held as an integer count of a unit chosen so that a full significand *)
(* is a number in 1000..9999 units or a power of ten times one:            *)
(*     coordinates cx, cy      tenths                                      *)
(*     shaped values nx, ny    1/10000                                     *)
(*     size values             1/1000                                      *)
(*     decay values            1/100000                                    *)
(*     the ratio v / step      1/100                                       *)
(*     time                    1/ClockHz seconds since the epoch           *)
(* Fl(n, d) is the rounding of the exact rational n/d.                     *)
(***************************************************************************)
EXTENDS Integers, Sequences, FiniteSets, TLC

\* ------------------------------ bounds ---------------------------------
MaxTicks == 3          \* frames processed in one run
MaxNow == 4            \* largest reading of the clock

\* coordinates the detector can report, in tenths (outside 0..10 included)
RawX == {-1, 7, 8}
RawY == {0, 12}
Times == 0..MaxNow

\* ------------------------------ CONFIG ---------------------------------
SIZE_RANGE == <<10000, 100000>>     \* (10.0, 100.0)
DECAY_RANGE == <<80000, 98000>>     \* (0.80, 0.98)
SMOOTH_ALPHA == 12                  \* 0.12, in hundredths
DEADZONE_NORM == 2                  \* 0.02, in hundredths
STEP_SIZE == 500                    \* 0.5
STEP_DECAY == 300                   \* 0.003
MAX_UPS == 30
GAMMA_X == 9                        \* 0.9, in tenths
GAMMA_Y == 9                        \* 0.9, in tenths
INVERT_Y == TRUE

\* the module-level settings as main() reads them
CONFIG ==
    [size_range |-> SIZE_RANGE, decay_range |-> DECAY_RANGE,
     smooth_alpha |-> SMOOTH_ALPHA, deadzone_norm |-> DEADZONE_NORM,
     step_size |-> STEP_SIZE, step_decay |-> STEP_DECAY, max_ups |-> MAX_UPS,
     gamma_x |-> GAMMA_X, gamma_y |-> GAMMA_Y, invert_y |-> INVERT_Y]

\* ------------------------- Python values -------------------------------
None == <<>>
Some(v) == <<v>>
Val(o) == o[1]

\* ----------------------- float arithmetic ------------------------------
FloatDigits == 4
ClockHz == 60

RECURSIVE Pow10(_)
Pow10(n) == IF n = 0 THEN 1 ELSE 10 * Pow10(n - 1)

Abs(x) == IF x < 0 THEN -x ELSE x

Min2(a, b) == IF a < b THEN a ELSE b
Max2(a, b) == IF a > b THEN a ELSE b

\* the spacing of representable values around x >= 0
RECURSIVE Quantum(_)
Quantum(x) == IF x < Pow10(FloatDigits) THEN 1 ELSE 10 * Quantum(x \div 10)

\* n/d rounded to an integer, ties to the even neighbour (d > 0)
RoundHalfEven(n, d) ==
    LET q == n \div d
        r == n % d
    IN  IF 2 * r < d THEN q
        ELSE IF 2 * r > d THEN q + 1
        ELSE IF q % 2 = 0 THEN q ELSE q + 1

\* n/d >= 0 rounded to FloatDigits significant digits
Fl(n, d) == LET q == Quantum(n \div d) IN RoundHalfEven(n, d * q) * q

FAdd(x, y) == IF x + y >= 0 THEN Fl(x + y, 1) ELSE -Fl(-(x + y), 1)
FSub(x, y) == FAdd(x, -y)

\* ------------------------- pure functions ------------------------------
\* a + (b - a) * t, t in 1/10000
lerp(a, b, t) == FAdd(a, Fl(FSub(b, a) * t, 10000))

\* max(0.0, min(1.0, x)), x in tenths
clamp01(x) == Max2(0, Min2(10, x))

\* t ** gamma for t in 0..10 tenths, result in 1/10000
Pow(t, gamma) ==
    CASE gamma = 9 ->
           <<0, 1259, 2349, 3384, 4384, 5359, 6314, 7254, 8181, 9095, 10000>>[t + 1]
      [] gamma = 10 -> t * 1000

resp_curve(t, gamma) == Pow(clamp01(t), gamma)

\* the blend with the two weights exchanged
ema_swapped(prev, new, a) ==
    IF prev # None
    THEN FAdd(Fl(a * Val(prev), 100), Fl(FSub(100, a) * new, 100))
    ELSE new

\* the blend applied a second time to its own result
ema_twice(prev, new, a) ==
    IF prev # None
    THEN LET once == FAdd(Fl(a * new, 100), Fl(FSub(100, a) * Val(prev), 100))
         IN  FAdd(Fl(a * new, 100), Fl(FSub(100, a) * once, 100))
    ELSE new

\* a * new + (1 - a) * prev if prev is not None else new
ema(prev, new, a) ==
    IF prev # None
    THEN FAdd(Fl(a * new, 100), Fl(FSub(100, a) * Val(prev), 100))
    ELSE new

\* the step count returned without scaling it back by the step
quantize_count(v, step) == RoundHalfEven(Fl(100 * v, step), 100)

\* round(v / step) * step
quantize(v, step) == Fl(RoundHalfEven(Fl(100 * v, step), 100) * step, 1)

\* the threshold taken as an absolute value, not a fraction of the range
within_deadzone_unscaled(prev, cur, rmin, rmax, dz_frac) ==
    IF prev = None THEN FALSE
    ELSE Abs(FSub(cur, Val(prev))) < dz_frac

\* the fraction taken in whole units, not hundredths, of the range
within_deadzone_wide(prev, cur, rmin, rmax, dz_frac) ==
    IF prev = None THEN FALSE
    ELSE Abs(FSub(cur, Val(prev))) < Fl(dz_frac * FSub(rmax, rmin), 1)

within_deadzone(prev, cur, rmin, rmax, dz_frac) ==
    IF prev = None THEN FALSE
    ELSE Abs(FSub(cur, Val(prev))) < Fl(dz_frac * FSub(rmax, rmin), 100)

\* ------------------------------ state ----------------------------------
VARIABLES
    config,           \* the CONFIG block the run was started with
    error,            \* the exception that ended main(), if any
    running,          \* the while loop has not been left
    frames,           \* res.multi_hand_landmarks of every frame read so far
    sm_size, sm_decay,
    last_tx_time,
    last_sent_size, last_sent_decay,
    size_target, decay_target,
    cand_size, cand_decay,
    now,
    sink,             \* the messages handed to client.send_message, in order
    fed_size, fed_decay   \* the targets handed to ema so far

vars == <<config, error, running, frames, sm_size, sm_decay, last_tx_time,
          last_sent_size, last_sent_decay, size_target, decay_target,
          cand_size, cand_decay, now, sink, fed_size, fed_decay>>

pipeline == <<sm_size, sm_decay, last_tx_time, last_sent_size, last_sent_decay>>

\* frames read so far, and whether the latest one showed a hand
ticks == Len(frames)
detected == frames # <<>> /\ frames[Len(frames)]

\* main() up to the while loop: the settings are taken as they are
Started ==
    /\ error = None
    /\ running = TRUE
    /\ frames = <<>>
    /\ sm_size = None
    /\ sm_decay = None
    /\ last_tx_time = 0
    /\ last_sent_size = None
    /\ last_sent_decay = None
    /\ size_target = None
    /\ decay_target = None
    /\ cand_size = None
    /\ cand_decay = None
    /\ now = None
    /\ sink = <<>>
    /\ fed_size = {}
    /\ fed_decay = {}

Init == config = CONFIG /\ Started

\* ------------------------- transmission gate ---------------------------
\* 1.0 / MAX_UPS
MinInterval == ClockHz \div config.max_ups

\* no rate limit at all
RateEligible_always(t, last) == TRUE

\* the distance to the last transmission, whichever way the clock moved
RateEligible_abs(t, last) == Abs(t - last) >= MinInterval

\* now - last_tx_time >= 1.0 / MAX_UPS
RateEligible(t, last) == t - last >= MinInterval

\* a channel is sent only when both have left their dead zone
SendFlags_joint(ls_size, c_size, ls_decay, c_decay) ==
    LET both == /\ ~within_deadzone(ls_size, c_size,
                                    SIZE_RANGE[1], SIZE_RANGE[2], DEADZONE_NORM)
                /\ ~within_deadzone(ls_decay, c_decay,
                                    DECAY_RANGE[1], DECAY_RANGE[2], DEADZONE_NORM)
    IN  [size |-> both, decay |-> both]

\* decay is looked at only on frames that do not send size
SendFlags_elif(ls_size, c_size, ls_decay, c_decay) ==
    LET s == ~within_deadzone(ls_size, c_size,
                              SIZE_RANGE[1], SIZE_RANGE[2], DEADZONE_NORM)
        d == ~within_deadzone(ls_decay, c_decay,
                              DECAY_RANGE[1], DECAY_RANGE[2], DEADZONE_NORM)
    IN  [size |-> s, decay |-> ~s /\ d]

\* send_size, send_decay
SendFlags(ls_size, c_size, ls_decay, c_decay) ==
    [size  |-> ~within_deadzone(ls_size, c_size, config.size_range[1],
                                config.size_range[2], config.deadzone_norm),
     decay |-> ~within_deadzone(ls_decay, c_decay, config.decay_range[1],
                                config.decay_range[2], config.deadzone_norm)]

\* the candidate is remembered whether or not it was sent
NextLastSent_always(last, cand, send) == Some(cand)

\* if send: last_sent = cand
NextLastSent(last, cand, send) == IF send THEN Some(cand) ELSE last

\* the time is taken on every rate-eligible tick
NextLastTx_always(t, last, send_size, send_decay) == t

\* if send_size or send_decay: last_tx_time = now
NextLastTx(t, last, send_size, send_decay) ==
    IF send_size \/ send_decay THEN t ELSE last

\* client.send_message("/size", ...), client.send_message("/decay", ...)
Messages(t, n, send_size, c_size, send_decay, c_decay) ==
    (IF send_size
     THEN <<[addr |-> "/size", value |-> c_size, at |-> t, tick |-> n]>>
     ELSE <<>>)
    \o
    (IF send_decay
     THEN <<[addr |-> "/decay", value |-> c_decay, at |-> t, tick |-> n]>>
     ELSE <<>>)

\* ------------------------------ actions --------------------------------
\* an exception leaves the loop and main(): what was assigned stays assigned
Raise(name) ==
    /\ error' = Some(name)
    /\ running' = FALSE

\* lines 94-111: the clock is read, then the rate limit and the dead zones
Gate(cs, cd, t) ==
    /\ now' = Some(t)
    /\ IF config.max_ups = 0
       THEN /\ Raise("ZeroDivisionError")
            /\ UNCHANGED <<last_sent_size, last_sent_decay, last_tx_time, sink>>
       ELSE LET elig == RateEligible(t, last_tx_time)
                flags == SendFlags(last_sent_size, cs, last_sent_decay, cd)
                send_size == elig /\ flags.size
                send_decay == elig /\ flags.decay
            IN  /\ last_sent_size' = NextLastSent(last_sent_size, cs, send_size)
                /\ last_sent_decay' = NextLastSent(last_sent_decay, cd, send_decay)
                /\ last_tx_time' =
                       IF elig
                       THEN NextLastTx(t, last_tx_time, send_size, send_decay)
                       ELSE last_tx_time
                /\ sink' = sink \o Messages(t, ticks + 1, send_size, cs, send_decay, cd)
                /\ UNCHANGED <<error, running>>

\* one pass of the loop body with a hand in the frame, the clock reading t
HandDetected(cx, cy, t) ==
    /\ running
    /\ ticks < MaxTicks
    /\ frames' = Append(frames, TRUE)
    /\ UNCHANGED config
    /\ LET nx == resp_curve(cx, config.gamma_x)
           ny == resp_curve(IF config.invert_y THEN 10 - cy ELSE cy, config.gamma_y)
           st == lerp(config.size_range[1], config.size_range[2], nx)
           dt == lerp(config.decay_range[1], config.decay_range[2], ny)
           ss == ema(sm_size, st, config.smooth_alpha)
           sd == ema(sm_decay, dt, config.smooth_alpha)
       IN  /\ size_target' = Some(st)
           /\ decay_target' = Some(dt)
           /\ fed_size' = fed_size \cup {st}
           /\ fed_decay' = fed_decay \cup {dt}
           /\ sm_size' = Some(ss)
           /\ sm_decay' = Some(sd)
           /\ IF config.step_size = 0
              THEN /\ Raise("ZeroDivisionError")
                   /\ UNCHANGED <<cand_size, cand_decay, now, last_sent_size,
                                  last_sent_decay, last_tx_time, sink>>
              ELSE /\ cand_size' = Some(quantize(ss, config.step_size))
                   /\ IF config.step_decay = 0
                      THEN /\ Raise("ZeroDivisionError")
                           /\ UNCHANGED <<cand_decay, now, last_sent_size,
                                          last_sent_decay, last_tx_time, sink>>
                      ELSE /\ cand_decay' = Some(quantize(sd, config.step_decay))
                           /\ Gate(quantize(ss, config.step_size),
                                   quantize(sd, config.step_decay), t)

\* a missed detection that forgets the smoothed values
NoHand_reset ==
    /\ running
    /\ ticks < MaxTicks
    /\ frames' = Append(frames, FALSE)
    /\ sm_size' = None
    /\ sm_decay' = None
    /\ UNCHANGED <<config, error, running, last_tx_time, last_sent_size,
                   last_sent_decay, size_target, decay_target, cand_size,
                   cand_decay, now, sink, fed_size, fed_decay>>

\* one pass of the loop body with no hand in the frame
NoHand ==
    /\ running
    /\ ticks < MaxTicks
    /\ frames' = Append(frames, FALSE)
    /\ UNCHANGED <<config, error, running, sm_size, sm_decay, last_tx_time, last_sent_size,
                   last_sent_decay, size_target, decay_target, cand_size,
                   cand_decay, now, sink, fed_size, fed_decay>>

\* cap.read() fails or 'q' is pressed: the loop is left
Quit ==
    /\ running
    /\ running' = FALSE
    /\ UNCHANGED <<config, error, frames, sm_size, sm_decay, last_tx_time,
                   last_sent_size, last_sent_decay, size_target, decay_target,
                   cand_size, cand_decay, now, sink, fed_size, fed_decay>>

Next ==
    \/ \E cx \in RawX, cy \in RawY, t \in Times : HandDetected(cx, cy, t)
    \/ NoHand
    \/ Quit

Spec == Init /\ [][Next]_vars

\* runs started with an edited CONFIG block: a zero step, a zero rate, an
\* empty size range, next to the block as it stands
Configs ==
    {CONFIG,
     [CONFIG EXCEPT !.step_size = 0],
     [CONFIG EXCEPT !.max_ups = 0],
     [CONFIG EXCEPT !.size_range = <<SIZE_RANGE[1], SIZE_RANGE[1]>>]}

InitConfig == config \in Configs /\ Started

SpecConfig == InitConfig /\ [][Next]_vars

\* ----------------------------- properties ------------------------------
\* a step that processes one frame, and one that finds a hand in it
Tick == Len(frames') = Len(frames) + 1
ValidTick == Tick /\ frames'[Len(frames')]

\* a message to addr is handed to the sink in this step
Emitted(a) == \E i \in (Len(sink) + 1)..Len(sink') : sink'[i].addr = a

\* a message to addr was handed to the sink on the latest frame
SentNow(a) == \E i \in 1..Len(sink) : sink[i].tick = ticks /\ sink[i].addr = a

\* |cand - last| < deadzoneFraction * (max - min), in exact arithmetic
InDeadzone(cand, last, range) ==
    100 * Abs(cand - last) < DEADZONE_NORM * (range[2] - range[1])

\* now - last < 1 / maxUpdatesPerSecond, in exact arithmetic
TooSoon(t, last) == (t - last) * MAX_UPS < ClockHz

\* the value of the latest message to addr, if any
LastMessage(a) ==
    LET idx == {i \in 1..Len(sink) : sink[i].addr = a}
    IN  IF idx = {} THEN None
        ELSE Some(sink[CHOOSE i \in idx : \A j \in idx : j <= i].value)

SetMin(S) == CHOOSE x \in S : \A y \in S : x <= y
SetMax(S) == CHOOSE x \in S : \A y \in S : x >= y

\* C1: the clock readings of any two distinct frames on which something was
\* sent differ by at least 1/MAX_UPS
C1_RateLimit ==
    \A i, j \in 1..Len(sink) :
        sink[i].tick # sink[j].tick
            => Abs(sink[i].at - sink[j].at) * MAX_UPS >= ClockHz

C1_Witness == \E i, j \in 1..Len(sink) : sink[i].tick # sink[j].tick

\* C2: a frame with a hand whose clock reading is less than 1/MAX_UPS after
\* last_tx_time sends nothing and leaves last_tx_time and both last_sent alone
C2_IneligibleFrame ==
    [][(ValidTick /\ TooSoon(Val(now'), last_tx_time))
         => /\ sink' = sink
            /\ UNCHANGED <<last_tx_time, last_sent_size, last_sent_decay>>]_vars

\* a frame held back by the rate limit although size had left its dead zone
C2_Witness ==
    /\ detected
    /\ sink # <<>>
    /\ ~SentNow("/size") /\ ~SentNow("/decay")
    /\ TooSoon(Val(now), last_tx_time)
    /\ ~InDeadzone(Val(cand_size), Val(last_sent_size), SIZE_RANGE)

\* C3: a channel whose last_sent is set and whose candidate is within the dead
\* zone of it is not sent and keeps its last_sent; a channel is sent only on a
\* rate-eligible frame on which it is outside the dead zone
C3_DeadzoneSuppression ==
    [][ValidTick =>
         /\ (last_sent_size # None
               /\ InDeadzone(Val(cand_size'), Val(last_sent_size), SIZE_RANGE))
              => (~Emitted("/size") /\ last_sent_size' = last_sent_size)
         /\ (last_sent_decay # None
               /\ InDeadzone(Val(cand_decay'), Val(last_sent_decay), DECAY_RANGE))
              => (~Emitted("/decay") /\ last_sent_decay' = last_sent_decay)
         /\ Emitted("/size")
              => /\ ~TooSoon(Val(now'), last_tx_time)
                 /\ (last_sent_size = None
                       \/ ~InDeadzone(Val(cand_size'), Val(last_sent_size), SIZE_RANGE))
         /\ Emitted("/decay")
              => /\ ~TooSoon(Val(now'), last_tx_time)
                 /\ (last_sent_decay = None
                       \/ ~InDeadzone(Val(cand_decay'), Val(last_sent_decay), DECAY_RANGE))
       ]_vars

\* a rate-eligible frame on which size moved, but by less than the dead zone
C3_Witness ==
    /\ detected
    /\ last_sent_size # None
    /\ ~TooSoon(Val(now), last_tx_time)
    /\ ~SentNow("/size")
    /\ cand_size # last_sent_size
    /\ InDeadzone(Val(cand_size), Val(last_sent_size), SIZE_RANGE)

\* C4: on a rate-eligible frame each channel whose last_sent is empty or whose
\* candidate is outside the dead zone is sent and its last_sent becomes the
\* candidate, whatever happens to the other channel
C4_Independent ==
    [][(ValidTick /\ ~TooSoon(Val(now'), last_tx_time)) =>
         /\ (last_sent_size = None
               \/ ~InDeadzone(Val(cand_size'), Val(last_sent_size), SIZE_RANGE))
              => (Emitted("/size") /\ last_sent_size' = cand_size')
         /\ (last_sent_decay = None
               \/ ~InDeadzone(Val(cand_decay'), Val(last_sent_decay), DECAY_RANGE))
              => (Emitted("/decay") /\ last_sent_decay' = cand_decay')
       ]_vars

\* a frame on which decay was sent while size was held in its dead zone
C4_Witness ==
    /\ detected
    /\ SentNow("/decay") /\ ~SentNow("/size")
    /\ last_sent_decay = cand_decay
    /\ InDeadzone(Val(cand_size), Val(last_sent_size), SIZE_RANGE)

\* C5: while nothing has been sent, every frame with a hand is rate-eligible
\* whatever the clock reads, so the first frame with a hand sends both channels
C5_FirstFrameSends ==
    sm_size # None => (\E i \in 1..Len(sink) : sink[i].addr = "/size")
                      /\ (\E i \in 1..Len(sink) : sink[i].addr = "/decay")

\* C6: last_tx_time changes exactly on the steps that send something, and then
\* to that frame's clock reading
C6_LastTxOnlyOnSend ==
    [][/\ (last_tx_time' # last_tx_time) <=> (sink' # sink)
       /\ sink' # sink => last_tx_time' = Val(now')]_vars

\* a rate-eligible frame on which both channels were held in their dead zone
C6_Witness ==
    /\ detected
    /\ sink # <<>>
    /\ ~SentNow("/size") /\ ~SentNow("/decay")
    /\ ~TooSoon(Val(now), last_tx_time)
    /\ last_tx_time # Val(now)

\* C7: a frame without a hand sends nothing and leaves the smoothed values,
\* both last_sent and last_tx_time unchanged
C7_MissTransparent ==
    [][(Tick /\ ~frames'[Len(frames')]) => (sink' = sink /\ UNCHANGED pipeline)]_vars

\* a frame without a hand after the pipeline has sent something
C7_Witness == ticks >= 2 /\ ~detected /\ sm_size # None /\ sink # <<>>

\* C8: each last_sent is empty, or is the value of the latest message sent for
\* its channel, which is a point of the channel's quantization grid
C8_LastSentWasSent ==
    /\ last_sent_size = LastMessage("/size")
    /\ last_sent_decay = LastMessage("/decay")
    /\ last_sent_size # None => Val(last_sent_size) % STEP_SIZE = 0
    /\ last_sent_decay # None => Val(last_sent_decay) % STEP_DECAY = 0

\* a candidate that was not sent differs from last_sent
C8_Witness ==
    /\ last_sent_size # None
    /\ cand_size # last_sent_size
    /\ last_sent_decay # None
    /\ cand_decay # last_sent_decay

\* C9: each smoothed value, once set, lies between the least and the greatest
\* target fed to its smoother so far
C9_SmoothedInHull ==
    /\ sm_size # None
         => SetMin(fed_size) <= Val(sm_size) /\ Val(sm_size) <= SetMax(fed_size)
    /\ sm_decay # None
         => SetMin(fed_decay) <= Val(sm_decay) /\ Val(sm_decay) <= SetMax(fed_decay)

\* C10: smoothed is empty exactly until the first frame with a hand, which
\* stores the target unblended; every later frame with a hand, detection gaps
\* or not, stores a * target + (1 - a) * smoothed, and nothing empties it again
C10_FirstSampleOnce ==
    /\ []((sm_size = None <=> fed_size = {}) /\ (sm_decay = None <=> fed_decay = {}))
    /\ [][ValidTick =>
            /\ sm_size' = IF sm_size = None THEN size_target'
                          ELSE Some(FAdd(Fl(SMOOTH_ALPHA * Val(size_target'), 100),
                                         Fl((100 - SMOOTH_ALPHA) * Val(sm_size), 100)))
            /\ sm_decay' = IF sm_decay = None THEN decay_target'
                           ELSE Some(FAdd(Fl(SMOOTH_ALPHA * Val(decay_target'), 100),
                                          Fl((100 - SMOOTH_ALPHA) * Val(sm_decay), 100)))
          ]_vars
    /\ [][(sm_size # None => sm_size' # None)
            /\ (sm_decay # None => sm_decay' # None)]_vars

\* a frame with a hand right after a frame without one, blended with the
\* smoothed value kept across the gap
C10_Witness ==
    /\ ticks >= 3
    /\ frames[ticks] /\ ~frames[ticks - 1] /\ frames[ticks - 2]
    /\ sm_size # size_target
    /\ sm_decay # decay_target

\* C11: on a frame whose target is T the distance |smoothed - T| does not
\* grow and smoothed does not pass to the other side of T
C11_NoOvershoot ==
    [][(ValidTick /\ sm_size # None /\ sm_decay # None) =>
         LET Closer(old, new, T) ==
               /\ Abs(new - T) <= Abs(old - T)
               /\ (old >= T => new >= T)
               /\ (old <= T => new <= T)
         IN  /\ Closer(Val(sm_size), Val(sm_size'), Val(size_target'))
             /\ Closer(Val(sm_decay), Val(sm_decay'), Val(decay_target'))
       ]_vars

\* min < max for both ranges, both steps and the rate positive
ValidConfig(c) ==
    /\ c.size_range[1] < c.size_range[2]
    /\ c.decay_range[1] < c.decay_range[2]
    /\ c.step_size > 0
    /\ c.step_decay > 0
    /\ c.max_ups > 0

\* C12: a run started with an invalid configuration processes no frame, and
\* no frame ends in an error
C12_RejectedAtStartup ==
    /\ ~ValidConfig(config) => frames = <<>>
    /\ frames # <<>> => error = None

\* steps a deployment may configure, next to the two of the CONFIG block
ProbeSteps == {STEP_SIZE, STEP_DECAY, 700, 1000, 2500}

\* quantize applied to its own result returns it
FixedPoint(y, s) == quantize(y, s) = y

C14_ClockMonotonic ==
    [][(ValidTick /\ now # None) => Val(now') >= Val(now)]_vars

\* one application of smoothed := alpha * target + (1 - alpha) * smoothed
OneBlend(sm, target) ==
    Some(FAdd(Fl(SMOOTH_ALPHA * Val(target), 100),
              Fl(FSub(100, SMOOTH_ALPHA) * Val(sm), 100)))

\* C15: every frame with a hand advances each set smoothed value by exactly one
\* blend with the frame's target, whether or not the frame is rate-eligible
\* and whether or not the channel is sent; no other step touches the smoothed
\* values; last_sent and last_tx_time change only on a frame that sends
C15_SmoothedOncePerFrame ==
    [][/\ (ValidTick /\ sm_size # None)
            => sm_size' = OneBlend(sm_size, size_target')
       /\ (ValidTick /\ sm_decay # None)
            => sm_decay' = OneBlend(sm_decay, decay_target')
       /\ ~ValidTick => UNCHANGED <<sm_size, sm_decay>>
       /\ last_sent_size' # last_sent_size => Emitted("/size")
       /\ last_sent_decay' # last_sent_decay => Emitted("/decay")
       /\ last_tx_time' # last_tx_time => (Emitted("/size") \/ Emitted("/decay"))
      ]_vars

\* a frame held back by the rate limit that moved both smoothed values
C15_Witness ==
    /\ ticks >= 2 /\ frames[ticks] /\ frames[ticks - 1]
    /\ TooSoon(Val(now), last_tx_time)
    /\ ~SentNow("/size") /\ ~SentNow("/decay")
    /\ sm_size # size_target
    /\ sm_decay # decay_target

\* C16: every value handed to the sink lies within its channel's range
C16_SentWithinRange ==
    \A i \in 1..Len(sink) :
        LET r == IF sink[i].addr = "/size" THEN SIZE_RANGE ELSE DECAY_RANGE
        IN  r[1] <= sink[i].value /\ sink[i].value <= r[2]

\* last is set, and is cand or less than the dead zone away from it
Fresh(last, cand, range) ==
    /\ last # None
    /\ (last = cand \/ InDeadzone(Val(cand), Val(last), range))

\* C17: right after a rate-eligible frame with a hand each last_sent is set
\* and equals the frame's candidate or differs from it by less than
\* DEADZONE_NORM * (max - min)
C17_BoundedStaleness ==
    [][(ValidTick /\ ~TooSoon(Val(now'), last_tx_time)) =>
         /\ Fresh(last_sent_size', cand_size', SIZE_RANGE)
         /\ Fresh(last_sent_decay', cand_decay', DECAY_RANGE)
      ]_vars

\* a rate-eligible frame that sent decay and kept an older size, one that
\* differs from the frame's candidate
C17_Witness ==
    /\ detected
    /\ SentNow("/decay") /\ ~SentNow("/size")
    /\ last_sent_decay = cand_decay
    /\ last_sent_size # None /\ last_sent_size # cand_size
    /\ last_tx_time = Val(now)

\* C18: both last_sent are empty or both are set, and they are set exactly
\* when something has been sent, which is when last_tx_time has left 0.0
C18_LastSentTogether ==
    /\ last_sent_size = None <=> last_sent_decay = None
    /\ last_sent_size # None <=> sink # <<>>
    /\ sink # <<>> <=> last_tx_time # 0

\* something has been sent and frames went by before it
C18_Witness ==
    /\ last_sent_size # None /\ last_sent_decay # None
    /\ last_tx_time # 0
    /\ sink[1].tick > 1

\* the channel is due: nothing was ever sent for it, or its candidate is at
\* least the dead zone away from what was last sent
Due(last, cand, range) ==
    last = None \/ ~InDeadzone(Val(cand), Val(last), range)

\* the frame was read before last_tx_time + 1/MAX_UPS and sent nothing, so
\* that deadline stands as it was
HeldBack ==
    /\ TooSoon(Val(now'), last_tx_time)
    /\ sink' = sink
    /\ last_tx_time' = last_tx_time

\* C19: a channel is still due after a frame with a hand only if the frame was
\* read before last_tx_time + 1/MAX_UPS and nothing was sent on it for either
\* channel; a frame read at or after that deadline sends every due channel,
\* and the other channel's messages never move the deadline past a due channel
C19_NoStarvation ==
    [][ValidTick =>
         /\ Due(last_sent_size', cand_size', SIZE_RANGE) => HeldBack
         /\ Due(last_sent_decay', cand_decay', DECAY_RANGE) => HeldBack
      ]_vars

\* size alone was sent on the second frame; on the third, read before the
\* deadline, decay has left its dead zone and waits
C19_Witness ==
    /\ ticks = 3 /\ detected
    /\ \E i \in 1..Len(sink) : sink[i].tick = 2 /\ sink[i].addr = "/size"
    /\ \A i \in 1..Len(sink) : sink[i].tick = 2 => sink[i].addr # "/decay"
    /\ ~SentNow("/size") /\ ~SentNow("/decay")
    /\ Due(last_sent_decay, cand_decay, DECAY_RANGE)
    /\ TooSoon(Val(now), last_tx_time)

====
